---- MODULE Spec2Model ----
(***************************************************************************)
(* Model of src/app.py: a Streamlit script that is re-executed from top to *)
(* bottom on every user interaction (one "render cycle").  The state is    *)
(* the source file, the st.cache_data memo of load_data, the widget values *)
(* kept by the session, and the script's own variables (df, filtered_df,   *)
(* the KPIs, the exported csv) together with the elements displayed so far *)
(* in the running cycle.                                                   *)
(***************************************************************************)
EXTENDS Integers, Sequences, FiniteSets, TLC

\* ------------------------------------------------------------------ bounds
\* Longest table the source file may hold.
MaxRows == 2
\* Number of render cycles explored (the first run plus user interactions).
MaxCycles == 2

\* ------------------------------------------------------------ data values
\* A missing cell (an empty CSV field; pandas NaN), and a null category.
NaN == "NaN"

StringColumns == {"Geography", "Gender"}

BaseColumns ==
    <<"Geography", "Gender", "Age", "Balance", "NumOfProducts",
      "IsActiveMember", "Exited">>

Row(geo, gender, age, balance, products, active, exited) ==
    [Geography |-> geo, Gender |-> gender, Age |-> age, Balance |-> balance,
     NumOfProducts |-> products, IsActiveMember |-> active, Exited |-> exited]

\* The rows a source file is built from.  They sit on the boundaries the
\* script compares against: ages 18, 25, 40, 45, 61, 101; balances 0,
\* 75000, 100000, 150000, 210000, 250000; one row has a missing cell.
RowPool ==
    { Row("France", "Female", 18, 0, 1, 1, 0),
      Row("Spain", "Male", 45, 150000, 2, 0, 1),
      Row("France", "Male", 25, 75000, 1, 0, 0),
      Row("Spain", "Female", 61, 250000, 2, 1, 1),
      Row("France", "Male", 40, 210000, 1, 0, 1),
      Row("France", "Female", 101, 100000, 1, 0, 1),
      Row(NaN, "Male", 30, 120000, 1, 1, 0) }

RECURSIVE SeqsUpTo(_, _)
SeqsUpTo(S, n) ==
    IF n = 0 THEN {<<>>}
    ELSE LET shorter == SeqsUpTo(S, n - 1)
         IN  shorter \cup {Append(s, x) : s \in {t \in shorter : Len(t) = n - 1}, x \in S}

\* What "Churn_Modelling.csv" can be: absent, not parseable as CSV, or a
\* table of rows.
FileStates ==
    {[kind |-> "absent", rows |-> <<>>], [kind |-> "malformed", rows |-> <<>>]}
    \cup {[kind |-> "table", rows |-> rs] : rs \in SeqsUpTo(RowPool, MaxRows)}

PandasMajors == {1, 2}

NoFrame == [columns |-> <<>>, rows |-> <<>>]
NoCache == [present |-> FALSE, value |-> NoFrame]

NumericColumns == {"Age", "Balance", "NumOfProducts", "IsActiveMember", "Exited"}

\* ------------------------------------------------------- pandas operations
Range(s) == {s[i] : i \in 1..Len(s)}

\* df[col].unique(): the distinct values of a column.
Unique(frame, col) == {frame.rows[i][col] : i \in 1..Len(frame.rows)}

\* df[col].max() / .min() of a non-empty column.
ColMax(frame, col) == CHOOSE m \in Unique(frame, col) : \A v \in Unique(frame, col) : v <= m
ColMin(frame, col) == CHOOSE m \in Unique(frame, col) : \A v \in Unique(frame, col) : m <= v

RECURSIVE SumRows(_, _)
SumRows(rows, col) ==
    IF rows = <<>> THEN 0 ELSE rows[1][col] + SumRows(Tail(rows), col)

\* df.dropna(): keeps the rows that have no missing cell.
HasNa(row) == \E c \in StringColumns : row[c] = NaN
DropNa(frame) == [frame EXCEPT !.rows = SelectSeq(frame.rows, LAMBDA r : ~HasNa(r))]

\* df[name] = values: replaces the column, or appends it as the last one.
SetColumn(frame, name, values) ==
    [columns |-> IF name \in Range(frame.columns) THEN frame.columns
                 ELSE Append(frame.columns, name),
     rows |-> [i \in 1..Len(frame.rows) |-> (name :> values[i]) @@ frame.rows[i]]]

\* pd.cut raises ValueError unless the bin edges increase strictly
\* ("bins must increase monotonically" / "Bin edges must be unique").
CutRaises(bins) == \E i \in 1..(Len(bins) - 1) : bins[i + 1] <= bins[i]

\* pd.cut(x, bins, labels) with the default right=True, include_lowest=False:
\* bin i is the interval (bins[i], bins[i+1]]; a value in no bin gets NaN.
PdCut(x, bins, labels) ==
    LET hits == {i \in 1..(Len(bins) - 1) : bins[i] < x /\ x <= bins[i + 1]}
    IN  IF hits = {} THEN NaN ELSE labels[CHOOSE i \in hits : TRUE]

AgeBins == <<18, 25, 35, 45, 55, 100>>
AgeLabels == <<"18-25", "26-35", "36-45", "46-55", "56+">>

BalanceLabels == <<"Zero", "Low", "Medium", "High", "Very High">>
BalanceBins(frame) == <<-1, 0, 50000, 100000, 200000, ColMax(frame, "Balance")>>

AgeGroup(a) == PdCut(a, AgeBins, AgeLabels)
BalanceBucket(b, frame) == PdCut(b, BalanceBins(frame), BalanceLabels)
ChurnStatus(exited) == IF exited = 1 THEN "Churned" ELSE "Retained"

\* ---------------------------------------------------------- filter engine
IsIn(frame, col, selection) ==
    [i \in 1..Len(frame.rows) |-> frame.rows[i][col] \in selection]

BetweenExclusive(frame, col, lo, hi) ==
    [i \in 1..Len(frame.rows) |-> lo < frame.rows[i][col] /\ frame.rows[i][col] < hi]

\* Series.between(lo, hi): inclusive on both ends.
Between(frame, col, lo, hi) ==
    [i \in 1..Len(frame.rows) |-> lo <= frame.rows[i][col] /\ frame.rows[i][col] <= hi]

MaskAnd(m1, m2) == [i \in DOMAIN m1 |-> m1[i] /\ m2[i]]

RECURSIVE TakeMasked(_, _, _)
TakeMasked(rows, mask, i) ==
    IF i > Len(rows) THEN <<>>
    ELSE IF mask[i] THEN <<rows[i]>> \o TakeMasked(rows, mask, i + 1)
    ELSE TakeMasked(rows, mask, i + 1)

\* df[mask]: a new frame with the rows whose mask entry is True.
BoolIndex(frame, mask) == [frame EXCEPT !.rows = TakeMasked(frame.rows, mask, 1)]

ApplyFilters(frame, s) ==
    BoolIndex(frame,
        MaskAnd(IsIn(frame, "Geography", s.geo),
        MaskAnd(IsIn(frame, "Gender", s.gender),
        MaskAnd(Between(frame, "Age", s.age[1], s.age[2]),
        MaskAnd(IsIn(frame, "IsActiveMember", s.active),
                IsIn(frame, "NumOfProducts", s.product))))))

\* ------------------------------------------------------------- aggregator
\* A ratio num/den kept exact (the script computes it in floating point).
Ratio(n, d) == [num |-> n, den |-> d]

\* (churned_customers / total_customers * 100) if total_customers > 0 else 0
ChurnRateUnguarded(churned, total) == Ratio(churned * 100, total)
ChurnRate(churned, total) ==
    IF total > 0 THEN Ratio(churned * 100, total) ELSE Ratio(0, 1)

\* f"{x:.2f}" of a non-negative ratio, as a number of hundredths rounded to
\* the nearest; -1 stands for "nan".  An exact tie is rounded up here, where
\* Python rounds the float's binary value (a tie needs a subset of 32 rows
\* or more).
Format2f(r) ==
    IF r.den = 0 THEN -1 ELSE (2 * 100 * r.num + r.den) \div (2 * r.den)

\* filtered_df.groupby(key)["Exited"].mean() * 100, as a mapping from the
\* group key to the ratio.
GroupChurn(frame, key) ==
    [k \in Unique(frame, key) |->
        LET grp == SelectSeq(frame.rows, LAMBDA r : r[key] = k)
        IN  Ratio(SumRows(grp, "Exited") * 100, Len(grp))]

\* ------------------------------------------------------ risk segmentation
churn_risk_from_forty(row) ==
    IF row["IsActiveMember"] = 0 /\ row["Age"] >= 40 /\ row["Balance"] > 100000
    THEN "High Risk"
    ELSE IF row["IsActiveMember"] = 0 THEN "Medium Risk"
    ELSE "Low Risk"

churn_risk(row) ==
    IF row["IsActiveMember"] = 0 /\ row["Age"] > 40 /\ row["Balance"] > 100000
    THEN "High Risk"
    ELSE IF row["IsActiveMember"] = 0 THEN "Medium Risk"
    ELSE "Low Risk"

\* filtered_df["ChurnRisk"].value_counts()
ValueCounts(frame, col) ==
    [k \in Unique(frame, col) |-> Len(SelectSeq(frame.rows, LAMBDA r : r[col] = k))]

\* ----------------------------------------------------------------- export
\* One CSV field: a number in decimal, a missing category as the empty field.
CsvField(frame, i, col) ==
    LET v == frame.rows[i][col]
    IN  IF col \in NumericColumns THEN ToString(v)
        ELSE IF v = NaN THEN "" ELSE v

\* frame.to_csv(index=False): the header line, then one line per row, the
\* fields in the frame's column order.
ToCsv(frame) ==
    <<frame.columns>> \o
    [i \in 1..Len(frame.rows) |->
        [j \in 1..Len(frame.columns) |-> CsvField(frame, i, frame.columns[j])]]

\* ------------------------------------------------------------------ state
VARIABLES
    file,         \* what Churn_Modelling.csv is on disk
    pandas,       \* the installed pandas major version (1, or 2 and later)
    cache,        \* the st.cache_data memo of load_data()
    fileReads,    \* how many times pd.read_csv has been called
    session,      \* the widget values the session keeps between cycles
    cycle,        \* render cycles started so far
    pc,           \* the statement the running script is at
    df,           \* the script's df
    filtered_df,  \* the script's filtered_df
    kpi,          \* total_customers, churned_customers, churn_rate, avg_balance
    charts,       \* the grouped aggregations handed to the charts
    csv,          \* the bytes handed to the download button
    displayed,    \* the elements sent to the page in this cycle, in order
    error         \* the exception that ended this cycle, or "none"

vars ==
    <<file, pandas, cache, fileReads, session, cycle, pc, df, filtered_df,
      kpi, charts, csv, displayed, error>>

DefaultAgeLo == 18
DefaultAgeHi == 60

\* The slider positions the user may pick.
AgeStops == {18, 45, 60}

NoSession ==
    [known |-> {}, geo |-> {}, gender |-> {}, age |-> <<DefaultAgeLo, DefaultAgeHi>>,
     active |-> {}, product |-> {}]

NoRatio == Ratio(0, 0)
NoKpi == [total |-> 0, churned |-> 0, rate |-> NoRatio, rateShown |-> 0, avg |-> NoRatio]
NoCharts == [geo |-> <<>>, gender |-> <<>>, active |-> <<>>, risk |-> <<>>]
NoCsv == <<>>

Init ==
    /\ file \in FileStates
    /\ pandas \in PandasMajors
    /\ cache = NoCache
    /\ fileReads = 0
    /\ session = NoSession
    /\ cycle = 0
    /\ pc = "top"
    /\ df = NoFrame
    /\ filtered_df = NoFrame
    /\ kpi = NoKpi
    /\ charts = NoCharts
    /\ csv = NoCsv
    /\ displayed = <<>>
    /\ error = "none"

\* The statements of the script, in the order they run: "top" before the
\* first run, "end" after the last statement.
PcOrder ==
    <<"top", "load", "dropna", "age_group", "balance_bucket", "churn_status",
      "widgets", "filter", "kpi", "charts", "risk", "risk_fig", "export", "end">>

\* The script is about to execute statement p.
Running(p) == pc = p /\ error = "none"

\* An uncaught exception: Streamlit stops the script at the statement that
\* raised, leaves what was displayed so far on the page and shows the
\* exception below it.
Raise(exc) ==
    /\ error' = exc
    /\ UNCHANGED pc

\* ------------------------------------------------------ start of a cycle
\* Streamlit re-executes the script from the top: lines 13-19 set the page
\* up and display the title; the script's variables start afresh.
StartRun(s) ==
    /\ pc \in {"top", "end"} \/ error # "none"
    /\ cycle < MaxCycles
    /\ cycle' = cycle + 1
    /\ session' = s
    /\ pc' = "load"
    /\ error' = "none"
    /\ displayed' = <<"title">>
    /\ df' = NoFrame
    /\ filtered_df' = NoFrame
    /\ kpi' = NoKpi
    /\ charts' = NoCharts
    /\ csv' = NoCsv
    /\ UNCHANGED <<file, pandas, cache, fileReads>>

\* The first run, or a rerun with the widgets as they are.
Rerun == StartRun(session)

\* The user changes one widget that is on the page; its options are the
\* ones the last cycle built from df.
ChangeGeography ==
    /\ "Geography" \in Range(displayed)
    /\ \E sel \in SUBSET Unique(df, "Geography") :
        /\ sel # session.geo
        /\ StartRun([session EXCEPT !.geo = sel])

ChangeGender ==
    /\ "Gender" \in Range(displayed)
    /\ \E sel \in SUBSET Unique(df, "Gender") :
        /\ sel # session.gender
        /\ StartRun([session EXCEPT !.gender = sel])

\* st.slider(label, int(df["Age"].min()), int(df["Age"].max()), (18, 60)):
\* the slider widens the given bounds so that they hold the default range.
SliderMin == IF ColMin(df, "Age") < DefaultAgeLo THEN ColMin(df, "Age") ELSE DefaultAgeLo
SliderMax == IF ColMax(df, "Age") > DefaultAgeHi THEN ColMax(df, "Age") ELSE DefaultAgeHi

ChangeAgeRange ==
    /\ "Age Range" \in Range(displayed)
    /\ \E lo \in AgeStops, hi \in AgeStops :
        /\ SliderMin <= lo /\ lo <= hi /\ hi <= SliderMax
        /\ <<lo, hi>> # session.age
        /\ StartRun([session EXCEPT !.age = <<lo, hi>>])

ChangeActive ==
    /\ "Is Active Member" \in Range(displayed)
    /\ \E sel \in SUBSET Unique(df, "IsActiveMember") :
        /\ sel # session.active
        /\ StartRun([session EXCEPT !.active = sel])

ChangeProducts ==
    /\ "Number of Products" \in Range(displayed)
    /\ \E sel \in SUBSET Unique(df, "NumOfProducts") :
        /\ sel # session.product
        /\ StartRun([session EXCEPT !.product = sel])

\* ------------------------------------------------------------ load_data
\* pd.read_csv of a parseable file.
ReadCsv(f) == [columns |-> BaseColumns, rows |-> f.rows]

CacheLookupNever == FALSE
\* st.cache_data: a hit when load_data() has returned before.
CacheLookup == cache.present

\* df = load_data().  st.cache_data stores the returned frame and hands a
\* copy of it to every caller; an exception is not cached.
LoadData ==
    /\ Running("load")
    /\ IF CacheLookup
       THEN /\ df' = cache.value
            /\ pc' = "dropna"
            /\ UNCHANGED <<cache, fileReads, error>>
       ELSE /\ fileReads' = fileReads + 1
            /\ CASE file.kind = "absent" ->
                        Raise("FileNotFoundError") /\ UNCHANGED <<cache, df>>
                 [] file.kind = "malformed" ->
                        Raise("ParserError") /\ UNCHANGED <<cache, df>>
                 [] OTHER ->
                        /\ cache' = [present |-> TRUE, value |-> ReadCsv(file)]
                        /\ df' = ReadCsv(file)
                        /\ pc' = "dropna"
                        /\ UNCHANGED error
    /\ UNCHANGED <<file, pandas, session, cycle, filtered_df, kpi, charts, csv, displayed>>

\* df = df.dropna(): a new frame; the cached one is not touched.
HandleMissingValues ==
    /\ Running("dropna")
    /\ df' = DropNa(df)
    /\ pc' = "age_group"
    /\ UNCHANGED <<file, pandas, cache, fileReads, session, cycle, filtered_df,
                   kpi, charts, csv, displayed, error>>

\* ---------------------------------------------------- feature engineering
\* df["AgeGroup"] = pd.cut(df["Age"], bins=[18, 25, 35, 45, 55, 100], ...)
DeriveAgeGroup ==
    /\ Running("age_group")
    /\ df' = SetColumn(df, "AgeGroup",
                       [i \in 1..Len(df.rows) |-> AgeGroup(df.rows[i]["Age"])])
    /\ pc' = "balance_bucket"
    /\ UNCHANGED <<file, pandas, cache, fileReads, session, cycle, filtered_df,
                   kpi, charts, csv, displayed, error>>

\* Whether pd.cut rejects the balance bins.  On an empty frame the last edge
\* is NaN: pandas 1 tests np.diff(bins) < 0 (false for NaN) and goes on,
\* pandas 2 tests Index(bins).is_monotonic_increasing and raises.
BalanceCutRaises ==
    IF df.rows = <<>> THEN pandas = 2 ELSE CutRaises(BalanceBins(df))

\* df["BalanceBucket"] = pd.cut(df["Balance"],
\*     bins=[-1, 0, 50000, 100000, 200000, df["Balance"].max()], ...)
DeriveBalanceBucket ==
    /\ Running("balance_bucket")
    /\ IF BalanceCutRaises
       THEN Raise("ValueError") /\ UNCHANGED df
       ELSE /\ df' = SetColumn(df, "BalanceBucket",
                    [i \in 1..Len(df.rows) |-> BalanceBucket(df.rows[i]["Balance"], df)])
            /\ pc' = "churn_status"
            /\ UNCHANGED error
    /\ UNCHANGED <<file, pandas, cache, fileReads, session, cycle, filtered_df,
                   kpi, charts, csv, displayed>>

\* df["ChurnStatus"] = df["Exited"].map({1: "Churned", 0: "Retained"})
DeriveChurnStatus ==
    /\ Running("churn_status")
    /\ df' = SetColumn(df, "ChurnStatus",
                       [i \in 1..Len(df.rows) |-> ChurnStatus(df.rows[i]["Exited"])])
    /\ pc' = "widgets"
    /\ UNCHANGED <<file, pandas, cache, fileReads, session, cycle, filtered_df,
                   kpi, charts, csv, displayed, error>>

\* -------------------------------------------------------- sidebar filters
\* A widget returns the value the session holds for it, or its default (for
\* a multiselect: every option) the first time it is shown.
WidgetValue(name, held, default) == IF name \in session.known THEN held ELSE default

\* Lines 57-88.  int(df["Age"].min()) raises ValueError on an empty frame
\* (int(nan)), after the header and the first two multiselects are shown.
SidebarFilters ==
    /\ Running("widgets")
    /\ LET geo == WidgetValue("geo", session.geo, Unique(df, "Geography"))
           gender == WidgetValue("gender", session.gender, Unique(df, "Gender"))
       IN  IF df.rows = <<>>
           THEN /\ session' = [session EXCEPT !.known = @ \cup {"geo", "gender"},
                                              !.geo = geo, !.gender = gender]
                /\ displayed' = displayed \o <<"Filter Customers", "Geography", "Gender">>
                /\ Raise("ValueError")
           ELSE /\ session' =
                    [known |-> {"geo", "gender", "age", "active", "product"},
                     geo |-> geo,
                     gender |-> gender,
                     age |-> WidgetValue("age", session.age, <<DefaultAgeLo, DefaultAgeHi>>),
                     active |-> WidgetValue("active", session.active,
                                            Unique(df, "IsActiveMember")),
                     product |-> WidgetValue("product", session.product,
                                             Unique(df, "NumOfProducts"))]
                /\ displayed' = displayed \o
                      <<"Filter Customers", "Geography", "Gender", "Age Range",
                        "Is Active Member", "Number of Products">>
                /\ pc' = "filter"
                /\ UNCHANGED error
    /\ UNCHANGED <<file, pandas, cache, fileReads, cycle, df, filtered_df, kpi,
                   charts, csv>>

\* Lines 93-99: filtered_df = df[mask], a new frame.
ApplyFiltersStep ==
    /\ Running("filter")
    /\ filtered_df' = ApplyFilters(df, session)
    /\ pc' = "kpi"
    /\ UNCHANGED <<file, pandas, cache, fileReads, session, cycle, df, kpi,
                   charts, csv, displayed, error>>

\* ------------------------------------------------------------ KPI metrics
\* Lines 104-116.  The mean of an empty column is NaN (a ratio over 0 here),
\* which formats as "nan" without raising.
KpiMetrics ==
    /\ Running("kpi")
    /\ LET total == Len(filtered_df.rows)
           churned == SumRows(filtered_df.rows, "Exited")
           rate == ChurnRate(churned, total)
       IN  kpi' = [total |-> total, churned |-> churned, rate |-> rate,
                   rateShown |-> Format2f(rate),
                   avg |-> Ratio(SumRows(filtered_df.rows, "Balance"), total)]
    /\ displayed' = displayed \o
          <<"Total Customers", "Churned Customers", "Churn Rate (%)",
            "Avg Account Balance">>
    /\ pc' = "charts"
    /\ UNCHANGED <<file, pandas, cache, fileReads, session, cycle, df,
                   filtered_df, charts, csv, error>>

\* active_churn["IsActiveMember"].map({1: "Active", 0: "Inactive"})
ActiveLabel(flag) == IF flag = 1 THEN "Active" ELSE "Inactive"

ActiveChurn(frame) ==
    LET byFlag == GroupChurn(frame, "IsActiveMember")
    IN  [l \in {ActiveLabel(k) : k \in DOMAIN byFlag} |->
            byFlag[CHOOSE k \in DOMAIN byFlag : ActiveLabel(k) = l]]

\* Lines 121-179: the five charts, displayed one after the other.
Visualizations ==
    /\ Running("charts")
    /\ charts' = [charts EXCEPT !.geo = GroupChurn(filtered_df, "Geography"),
                                !.gender = GroupChurn(filtered_df, "Gender"),
                                !.active = ActiveChurn(filtered_df)]
    /\ displayed' = displayed \o
          <<"fig_geo", "fig_gender", "fig_age", "fig_balance", "fig_active">>
    /\ pc' = "risk"
    /\ UNCHANGED <<file, pandas, cache, fileReads, session, cycle, df,
                   filtered_df, kpi, csv, error>>

\* ------------------------------------------------------ risk segmentation
\* Line 192.  On an empty frame apply(axis=1) returns an empty DataFrame
\* with all the frame's columns, and assigning it to the single column
\* "ChurnRisk" raises ValueError.
RiskSegmentation ==
    /\ Running("risk")
    /\ IF filtered_df.rows = <<>>
       THEN Raise("ValueError") /\ UNCHANGED filtered_df
       ELSE /\ filtered_df' = SetColumn(filtered_df, "ChurnRisk",
                    [i \in 1..Len(filtered_df.rows) |-> churn_risk(filtered_df.rows[i])])
            /\ pc' = "risk_fig"
            /\ UNCHANGED error
    /\ UNCHANGED <<file, pandas, cache, fileReads, session, cycle, df, kpi,
                   charts, csv, displayed>>

\* The column names of value_counts().reset_index(): pandas 1 names them
\* "index" and "ChurnRisk", pandas 2 "ChurnRisk" and "count".
ValueCountsColumns ==
    IF pandas = 1 THEN {"index", "ChurnRisk"} ELSE {"ChurnRisk", "count"}

\* Lines 194-201: px.bar(..., x="index", y="ChurnRisk") raises ValueError
\* when the frame has no column of that name.
RiskChart ==
    /\ Running("risk_fig")
    /\ IF {"index", "ChurnRisk"} \subseteq ValueCountsColumns
       THEN /\ charts' = [charts EXCEPT !.risk = ValueCounts(filtered_df, "ChurnRisk")]
            /\ displayed' = displayed \o <<"risk_fig">>
            /\ pc' = "export"
            /\ UNCHANGED error
       ELSE Raise("ValueError") /\ UNCHANGED <<charts, displayed>>
    /\ UNCHANGED <<file, pandas, cache, fileReads, session, cycle, df,
                   filtered_df, kpi, csv>>

\* ----------------------------------------------------- insights and export
\* Lines 206-231: csv = filtered_df.to_csv(index=False), handed to the
\* download button; the script ends.
ExportFrameBeforeRisk ==
    [columns |-> SelectSeq(filtered_df.columns, LAMBDA c : c # "ChurnRisk"),
     rows |-> filtered_df.rows]
ExportFrame == filtered_df

CsvDownload ==
    /\ Running("export")
    /\ csv' = ToCsv(ExportFrame)
    /\ displayed' = displayed \o <<"Key Business Insights", "Download CSV", "caption">>
    /\ pc' = "end"
    /\ UNCHANGED <<file, pandas, cache, fileReads, session, cycle, df,
                   filtered_df, kpi, charts, error>>

Next ==
    \/ Rerun
    \/ ChangeGeography
    \/ ChangeGender
    \/ ChangeAgeRange
    \/ ChangeActive
    \/ ChangeProducts
    \/ LoadData
    \/ HandleMissingValues
    \/ DeriveAgeGroup
    \/ DeriveBalanceBucket
    \/ DeriveChurnStatus
    \/ SidebarFilters
    \/ ApplyFiltersStep
    \/ KpiMetrics
    \/ Visualizations
    \/ RiskSegmentation
    \/ RiskChart
    \/ CsvDownload

Spec == Init /\ [][Next]_vars

\* ================================================================= claims
Pos(p) == CHOOSE i \in 1..Len(PcOrder) : PcOrder[i] = p

\* Statement p has run to completion in the current cycle.
Past(p) == Pos(pc) > Pos(p)

\* Statement p has been executed in the current cycle, whether it raised or not.
Attempted(p) == Past(p) \/ (pc = p /\ error # "none")

Project(row, cols) == [c \in Range(cols) |-> row[c]]

Indices(frame) == 1..Len(frame.rows)

\* ----------------------------------------------------------------------
\* C1: once the filters are applied, the filtered subset is exactly the rows
\* of df, in order, whose geography, gender, active flag and product count
\* are in the selected sets and whose age lies in [lo, hi] inclusive; with
\* any categorical selection empty the subset has no rows.
C1_Selected(r) ==
    /\ r["Geography"] \in session.geo
    /\ r["Gender"] \in session.gender
    /\ session.age[1] <= r["Age"] /\ r["Age"] <= session.age[2]
    /\ r["IsActiveMember"] \in session.active
    /\ r["NumOfProducts"] \in session.product

C1_FilterIsConjunction ==
    Past("filter") =>
        /\ [i \in Indices(filtered_df) |-> Project(filtered_df.rows[i], df.columns)]
               = SelectSeq(df.rows, C1_Selected)
        /\ ({} \in {session.geo, session.gender, session.active, session.product}
               => filtered_df.rows = <<>>)

\* A cycle whose age range ends exactly on a row's age and keeps that row
\* while dropping another.
C1_Witness ==
    /\ Past("filter")
    /\ filtered_df.rows # <<>>
    /\ Len(filtered_df.rows) < Len(df.rows)
    /\ \E i \in Indices(filtered_df) : filtered_df.rows[i]["Age"] = session.age[1]

\* ----------------------------------------------------------------------
\* C2: every age from 18 to 100 gets one of the five age buckets (25 gets
\* "18-25", 26 gets "26-35"), and only ages outside [18, 100] get none.
C2_AgeGroupCoversEighteenToHundred ==
    Past("age_group") =>
        \A i \in Indices(df) :
            LET a == df.rows[i]["Age"]
                g == df.rows[i]["AgeGroup"]
            IN  /\ (18 <= a /\ a <= 100) => g \in Range(AgeLabels)
                /\ (a < 18 \/ a > 100) => g = NaN
                /\ a = 25 => g = "18-25"
                /\ a = 26 => g = "26-35"

C4_ChurnedCount == Cardinality({i \in Indices(filtered_df) : filtered_df.rows[i]["Exited"] = 1})

C4_ChurnRateKpi ==
    /\ ~(pc = "kpi" /\ error # "none")
    /\ Past("kpi") =>
        LET n == Len(filtered_df.rows)
        IN  /\ kpi.rate.den > 0
            /\ n > 0 => kpi.rate.num * n = C4_ChurnedCount * 100 * kpi.rate.den
            /\ n > 0 => /\ 2 * (kpi.rateShown * n - C4_ChurnedCount * 10000) <= n
                        /\ 2 * (C4_ChurnedCount * 10000 - kpi.rateShown * n) <= n
            /\ n = 0 => kpi.rate.num = 0 /\ kpi.rateShown = 0

\* The KPIs of an empty subset of a non-empty table.
C4_Witness ==
    /\ Past("kpi")
    /\ df.rows # <<>>
    /\ filtered_df.rows = <<>>
    /\ kpi.rate.num = 0

\* ----------------------------------------------------------------------
\* C5 (as claimed): the exported CSV has the rows of the filtered subset
\* with the base columns and AgeGroup, BalanceBucket and ChurnStatus, in
\* column order, and no ChurnRisk column.
C5_ExportOmitsChurnRisk ==
    pc = "end" =>
        /\ Len(csv) = 1 + Len(filtered_df.rows)
        /\ csv[1] = BaseColumns \o <<"AgeGroup", "BalanceBucket", "ChurnStatus">>
        /\ "ChurnRisk" \notin Range(csv[1])

\* C5 (amended): the exported CSV has the rows of the filtered subset with
\* the base columns and AgeGroup, BalanceBucket, ChurnStatus and ChurnRisk,
\* in column order with ChurnRisk last: the export is taken after risk
\* segmentation has added ChurnRisk.
C5_Digits(n) == ToString(n)

C5_ExportIncludesChurnRisk ==
    pc = "end" =>
        /\ Len(csv) = 1 + Len(filtered_df.rows)
        /\ csv[1] = BaseColumns \o <<"AgeGroup", "BalanceBucket", "ChurnStatus", "ChurnRisk">>
        /\ \A i \in Indices(filtered_df) :
            LET r == filtered_df.rows[i]
                g == IF r["AgeGroup"] = NaN THEN "" ELSE r["AgeGroup"]
            IN  csv[i + 1] =
                    <<r["Geography"], r["Gender"], C5_Digits(r["Age"]),
                      C5_Digits(r["Balance"]), C5_Digits(r["NumOfProducts"]),
                      C5_Digits(r["IsActiveMember"]), C5_Digits(r["Exited"]),
                      g, r["BalanceBucket"], r["ChurnStatus"], r["ChurnRisk"]>>
        /\ \A i \in Indices(filtered_df) : C1_Selected(filtered_df.rows[i])

\* An export of a non-empty subset that has a row without an age bucket.
C5_Witness ==
    /\ pc = "end"
    /\ Len(csv) > 1
    /\ "ChurnRisk" \in Range(csv[1])
    /\ \E i \in 2..Len(csv) : csv[i][8] = ""

\* ----------------------------------------------------------------------
\* C6: feature derivation completes without raising on every loaded table
\* that has rows, whatever its maximum balance.
C6_DerivationNeverRaises ==
    df.rows # <<>> =>
        ~(error # "none" /\ pc \in {"age_group", "balance_bucket", "churn_status"})

\* ----------------------------------------------------------------------
\* C7: a cycle that fails has displayed none of the pipeline's outputs
\* (KPI metrics, charts, risk chart, download button).
PipelineOutputs ==
    {"Total Customers", "Churned Customers", "Churn Rate (%)", "Avg Account Balance",
     "fig_geo", "fig_gender", "fig_age", "fig_balance", "fig_active", "risk_fig",
     "Key Business Insights", "Download CSV"}

C7_FailedCycleDisplaysNothing ==
    error # "none" => Range(displayed) \cap PipelineOutputs = {}

\* ----------------------------------------------------------------------
\* C8: when the file is absent or malformed, or the table is empty after
\* dropping the rows with missing values, the cycle stops at loading:
\* no derived column is computed and no filter widget is displayed.
C8_LoadErrorCase ==
    \/ file.kind \in {"absent", "malformed"}
    \/ DropNa(ReadCsv(file)).rows = <<>>

C8_LoadErrorHaltsBeforeDerivation ==
    C8_LoadErrorCase =>
        /\ "AgeGroup" \notin Range(df.columns)
        /\ "Geography" \notin Range(displayed)
        /\ pc # "end"

\* ----------------------------------------------------------------------
\* C9: for every table with rows, once BalanceBucket is derived each balance
\* b >= 0 has the bucket of the interval of {-1, 0, 50000, 100000, 200000,
\* max} it lies in, buckets are monotone in b, 0 is "Zero" and 75000 is
\* "Medium".
C9_Rank(label) == CHOOSE k \in 1..Len(BalanceLabels) : BalanceLabels[k] = label

C9_Expected(b) ==
    IF b <= 0 THEN "Zero"
    ELSE IF b <= 50000 THEN "Low"
    ELSE IF b <= 100000 THEN "Medium"
    ELSE IF b <= 200000 THEN "High"
    ELSE "Very High"

C9_BalanceBucketByBoundaries ==
    (df.rows # <<>> /\ Attempted("balance_bucket")) =>
        /\ Past("balance_bucket")
        /\ \A i \in Indices(df) :
            df.rows[i]["Balance"] >= 0 =>
                df.rows[i]["BalanceBucket"] = C9_Expected(df.rows[i]["Balance"])
        /\ \A i \in Indices(df), j \in Indices(df) :
            df.rows[i]["Balance"] <= df.rows[j]["Balance"] =>
                C9_Rank(df.rows[i]["BalanceBucket"]) <= C9_Rank(df.rows[j]["BalanceBucket"])

C10_BaseRows(frame) == {Project(frame.rows[i], BaseColumns) : i \in Indices(frame)}

====
